---- MODULE Spec2Model ----
(***************************************************************************)
(* Service-lifecycle scheduling of autoCRM.                                 *)
(*                                                                         *)
(* Two implementations of the schedule generator are modelled side by      *)
(* side: the PL/pgSQL trigger generate_scheduled_service_tasks, which      *)
(* inserts scheduled_service_tasks rows when a customer_products row is    *)
(* created, and generateTimelineNodes of the ServiceFlowTimeline           *)
(* component, which renders the preview in the sale form.  Both loops are  *)
(* modelled statement by statement, so that termination is a property of   *)
(* the model and not of the way it is written.                             *)
(*                                                                         *)
(* SQL NULL / JS null-undefined is the empty set; a present value v of a   *)
(* nullable column is the singleton {v}.                                   *)
(*                                                                         *)
(* Around the generator: the purchase trigger that creates the             *)
(* customer_products row, in both of its versions, with the rollback of    *)
(* the purchase when the schedule trigger raises; the message_templates    *)
(* rows the schedule trigger looks up; the numbering trigger of            *)
(* transactions (with two database sessions, an insert being a step of its *)
(* own from the BEFORE INSERT trigger); and the sale form, its handlers    *)
(* and the steps of its submit.  A text is the sequence of its characters. *)
(***************************************************************************)
EXTENDS Integers, Sequences, FiniteSets, TLC

\* ------------------------------------------------------------------ bounds
\* months offered to the generator run from -NegMonths to MaxMonths
MaxMonths == 24
NegMonths == 1
\* transaction items inserted in one behaviour of the database specification
MaxItems == 2
\* transactions inserted in one behaviour of the numbering specification
MaxTransactions == 2
\* line items of the sale form
MaxFormItems == 2

\* one more than the longest schedule the code can produce within the bounds;
\* the loops stop extending their output there, which only a non-terminating
\* loop can reach
MaxNodes == MaxMonths + NegMonths + 3

\* --------------------------------------------------------------- nullables
NULL == {}

Some(v) == {v}

IsNull(x) == x = NULL

Val(x) == CHOOSE v \in x : TRUE

\* SQL COALESCE(x, d)
Coalesce(x, d) == IF IsNull(x) THEN d ELSE Val(x)

Nullable(S) == {NULL} \cup {Some(v) : v \in S}

Range(seq) == {seq[k] : k \in 1..Len(seq)}

\* ------------------------------------------------------------------- dates
\* a calendar date is [y, m, d]
IsLeap(y) == (y % 4 = 0 /\ y % 100 # 0) \/ y % 400 = 0

DaysInMonth(y, m) ==
  IF m = 2 THEN (IF IsLeap(y) THEN 29 ELSE 28)
  ELSE IF m \in {4, 6, 9, 11} THEN 30 ELSE 31

RECURSIVE AddDays(_, _)
\* PostgreSQL date + integer: n days later (earlier when n < 0)
AddDays(date, n) ==
  IF n >= 0
  THEN IF date.d + n <= DaysInMonth(date.y, date.m)
       THEN [y |-> date.y, m |-> date.m, d |-> date.d + n]
       ELSE LET left == n - (DaysInMonth(date.y, date.m) - date.d + 1)
                ny == IF date.m = 12 THEN date.y + 1 ELSE date.y
                nm == IF date.m = 12 THEN 1 ELSE date.m + 1
            IN AddDays([y |-> ny, m |-> nm, d |-> 1], left)
  ELSE IF date.d + n >= 1
       THEN [y |-> date.y, m |-> date.m, d |-> date.d + n]
       ELSE LET py == IF date.m = 1 THEN date.y - 1 ELSE date.y
                pm == IF date.m = 1 THEN 12 ELSE date.m - 1
            IN AddDays([y |-> py, m |-> pm, d |-> DaysInMonth(py, pm)], n + date.d)

\* JS date.setMonth(date.getMonth() + n): the month index is normalised into
\* the year, and a day past the end of the target month rolls over into the
\* following month
SetMonth(date, n) ==
  LET total == date.y * 12 + (date.m - 1) + n
      y2 == total \div 12
      m2 == (total % 12) + 1
      dim == DaysInMonth(y2, m2)
  IN IF date.d <= dim
     THEN [y |-> y2, m |-> m2, d |-> date.d]
     ELSE [y |-> IF m2 = 12 THEN y2 + 1 ELSE y2,
           m |-> IF m2 = 12 THEN 1 ELSE m2 + 1,
           d |-> date.d - dim]

\* toLocaleDateString('th-TH', {day: 'numeric', month: 'short', year: '2-digit'}):
\* day of month, abbreviated month (one per month number) and the last two
\* digits of the Buddhist-era year
formatDate(date) ==
  [day |-> date.d, month |-> date.m, year2 |-> (date.y + 543) % 100]


\* ------------------------------------------------------------ input domains
Phases == {"onboarding", "retention", "maturity"}

\* service_flow_config with the three enabled flags given
Config(o, r, m) ==
  [onboarding |-> Some([enabled |-> o]),
   retention |-> Some([enabled |-> r]),
   maturity |-> Some([enabled |-> m])]

\* '{}'::jsonb, an object without any phase key
EmptyConfig == [onboarding |-> NULL, retention |-> NULL, maturity |-> NULL]

Configs == {Config(o, r, m) : o \in BOOLEAN, r \in BOOLEAN, m \in BOOLEAN}

Months == (0 - NegMonths)..MaxMonths

Date(y, m, d) == [y |-> y, m |-> m, d |-> d]

Anchors == {Date(2025, 1, 15), Date(2025, 1, 31)}

\* ------------------------------------------------------------------- state
VARIABLES
  products,                 \* products table: product id -> row
  on_transaction_item_created,  \* the function that trigger of transaction_items executes
  transaction_items,        \* transaction_items table, in insertion order
  customer_products,        \* customer_products table, in insertion order
  scheduled_service_tasks,  \* scheduled_service_tasks table, in insertion order
  NEW_cp,                   \* NEW: the row generate_scheduled_service_tasks runs for
  pc,                       \* position of the trigger function, "idle" when none runs
  v_config,                 \* locals of generate_scheduled_service_tasks
  v_lifecycle,
  v_interval,
  v_current_month,
  product,                  \* props of the mounted ServiceFlowTimeline
  serviceStartDate,
  ppc,                      \* position inside generateTimelineNodes
  nodes,                    \* its local nodes; the returned value once ppc = "done"
  currentMonth,             \* its local currentMonth
  message_templates,        \* message_templates table, in insertion order
  v_onboarding_template,    \* more locals of generate_scheduled_service_tasks
  v_retention_template,
  v_maturity_template,
  sqlstate,                 \* outcome of the last INSERT INTO transaction_items: NULL, or its error
  transactions,             \* transactions table (the rows visible to every session)
  NEW_tx,                   \* per database session: NEW of its INSERT INTO transactions
  now,                      \* NOW() / the date of the clock
  tenants,                  \* enable_vat and vat_rate of the shop's tenants row
  initialData,              \* props of the mounted TransactionFormV2: the transaction edited
  selectedCustomer,         \* its state
  transactionDate,
  items,
  discount,
  sendLineNotification,
  loading,
  success,
  saved,                    \* what handleSubmit last passed to transactionService
  submit,                   \* the call handleSubmit is waiting for, "idle" when it does not run
  onSuccess,                \* the onSuccess prop: "none", "scheduled" by setTimeout, "called"
  lineCalls,                \* calls of lineService.sendMessage made
  logged                    \* what console.error was called with

dbvars == <<products, on_transaction_item_created, transaction_items, customer_products, scheduled_service_tasks>>

v_templates == <<v_onboarding_template, v_retention_template, v_maturity_template>>

trigvars == <<NEW_cp, pc, v_config, v_lifecycle, v_interval, v_current_month, v_templates, sqlstate>>

previewvars == <<product, serviceStartDate, ppc, nodes, currentMonth>>

txvars == <<transactions, NEW_tx, now>>

\* what handleSubmit and the calls it makes change
submitvars == <<loading, success, saved, submit, onSuccess, lineCalls, logged>>

formvars == <<tenants, initialData, selectedCustomer, transactionDate, items, discount,
              sendLineNotification, submitvars>>

vars == <<dbvars, trigvars, previewvars, message_templates, txvars, formvars>>

\* ------------------------------------------------------- message_templates
\* a message_templates row (the columns the schedule trigger reads)
TemplateRow(id, type, is_default) == [id |-> id, type |-> type, is_default |-> is_default]

\* the three default templates the migration inserts
SeedTemplates ==
  <<TemplateRow(1, "onboarding", TRUE),
    TemplateRow(2, "retention", TRUE),
    TemplateRow(3, "maturity", TRUE)>>

\* SELECT id INTO v FROM message_templates WHERE type = .. AND is_default = true
\* LIMIT 1: the values v can get. NULL without such a row; with several any one
\* of them, the query having no ORDER BY
DefaultTemplate(type) ==
  LET ids == {message_templates[k].id :
                k \in {j \in 1..Len(message_templates) :
                         /\ message_templates[j].type = type
                         /\ message_templates[j].is_default}}
  IN IF ids = {} THEN {NULL} ELSE {Some(id) : id \in ids}

\* -------------------------------------- generate_scheduled_service_tasks
\* (v_config->phase->>'enabled')::boolean used as an IF condition: a missing
\* key gives NULL, and IF NULL does not take the branch
SqlEnabledPresent(config, phase) == ~IsNull(config[phase])

SqlEnabledWithTemplate(config, phase) ==
  /\ ~IsNull(config[phase])
  /\ Val(config[phase]).enabled
  /\ DefaultTemplate(phase) # {NULL}

SqlEnabled(config, phase) ==
  /\ ~IsNull(config[phase])
  /\ Val(config[phase]).enabled

\* v_config->phase->>key: NULL when the phase or the key is missing
JsonText(config, phase, key) ==
  IF IsNull(config[phase]) THEN NULL
  ELSE IF key \in DOMAIN Val(config[phase]) THEN Val(config[phase])[key]
  ELSE NULL

\* COALESCE(x, y) of two nullable values (first with the arguments exchanged)
CoalesceSecond(x, y) == IF IsNull(y) THEN x ELSE y

Coalesce2(x, y) == IF IsNull(x) THEN y ELSE x

\* IF v_lifecycle <= 0 OR v_interval <= 0 THEN RETURN NEW
TriggerSkipNoInterval(lifecycle, interval) == lifecycle <= 0

TriggerSkipNoLifecycle(lifecycle, interval) == interval <= 0

TriggerSkip(lifecycle, interval) == lifecycle <= 0 \/ interval <= 0

\* WHILE v_current_month < v_lifecycle
TriggerLoopCondInclusive(month, lifecycle) == month <= lifecycle

TriggerLoopCond(month, lifecycle) == month < lifecycle

\* the row one INSERT INTO scheduled_service_tasks adds; month is the month
\* offset the row was generated for (0 for onboarding), status the column default;
\* task_name is the sequence of the parts it is concatenated from
TaskRow(cp, phase, month, date, task_name, message_template_id) ==
  [customer_product_id |-> cp.id,
   phase |-> phase,
   month |-> month,
   scheduled_date |-> date,
   task_name |-> task_name,
   message_template_id |-> message_template_id,
   status |-> "pending"]

TasksOf(id) == SelectSeq(scheduled_service_tasks, LAMBDA t : t.customer_product_id = id)

\* message_template_id UUID REFERENCES message_templates(id): NULL, or the id
\* of a row of the table
ReferencesTemplate(message_template_id) ==
  \/ IsNull(message_template_id)
  \/ \E row \in Range(message_templates) : row.id = Val(message_template_id)

\* SQLSTATE foreign_key_violation
ForeignKeyViolation == "23503"

TriggerReturn ==
  /\ pc' = "idle"
  /\ NEW_cp' = NULL
  /\ v_config' = NULL
  /\ v_lifecycle' = NULL
  /\ v_interval' = NULL
  /\ v_current_month' = NULL
  /\ v_onboarding_template' = NULL
  /\ v_retention_template' = NULL
  /\ v_maturity_template' = NULL

\* an INSERT of the function fails (first: as if the function caught the error
\* and returned). The error leaves the function, the AFTER INSERT trigger that
\* called it and the INSERT INTO transaction_items that fired that one: the
\* statement is undone with everything its triggers inserted, and its caller
\* gets the error
TriggerRaiseCaught(state) ==
  /\ TriggerReturn
  /\ UNCHANGED <<transaction_items, customer_products, scheduled_service_tasks, sqlstate>>

TriggerRaise(state) ==
  /\ transaction_items' = SubSeq(transaction_items, 1, Len(transaction_items) - 1)
  /\ customer_products' = SubSeq(customer_products, 1, Len(customer_products) - 1)
  /\ scheduled_service_tasks' =
       SelectSeq(scheduled_service_tasks, LAMBDA t : t.customer_product_id # Val(NEW_cp).id)
  /\ TriggerReturn
  /\ sqlstate' = Some(state)

\* lines 192-205: read the snapshot, return early without a lifecycle or
\* interval, look up the default templates
TriggerBegin ==
  /\ pc = "begin"
  /\ LET cp == Val(NEW_cp)
         config == Coalesce(cp.service_flow_config_snapshot, EmptyConfig)
         lifecycle == Coalesce(cp.lifecycle_months_snapshot, 0)
         interval == Coalesce(cp.service_interval_months_snapshot, 0)
     IN IF TriggerSkip(lifecycle, interval)
        THEN TriggerReturn
        ELSE /\ pc' = "onboarding"
             /\ v_config' = Some(config)
             /\ v_lifecycle' = Some(lifecycle)
             /\ v_interval' = Some(interval)
             /\ v_onboarding_template' \in DefaultTemplate("onboarding")
             /\ v_retention_template' \in DefaultTemplate("retention")
             /\ v_maturity_template' \in DefaultTemplate("maturity")
             /\ UNCHANGED <<NEW_cp, v_current_month>>
  /\ UNCHANGED <<dbvars, sqlstate, previewvars, message_templates, txvars, formvars>>

\* lines 207-213
TriggerOnboarding ==
  /\ pc = "onboarding"
  /\ LET row == TaskRow(Val(NEW_cp), "onboarding", 0, Val(NEW_cp).installation_date,
                        Coalesce(JsonText(Val(v_config), "onboarding", "task_name"),
                                 <<"Install Product">>),
                        Coalesce2(JsonText(Val(v_config), "onboarding", "message_template_id"),
                                  v_onboarding_template))
     IN IF SqlEnabled(Val(v_config), "onboarding") /\ ~ReferencesTemplate(row.message_template_id)
        THEN TriggerRaise(ForeignKeyViolation)
        ELSE /\ scheduled_service_tasks' =
                  IF SqlEnabled(Val(v_config), "onboarding")
                  THEN Append(scheduled_service_tasks, row)
                  ELSE scheduled_service_tasks
             /\ pc' = "retention"
             /\ UNCHANGED <<transaction_items, customer_products, NEW_cp, v_config, v_lifecycle,
                            v_interval, v_current_month, v_templates, sqlstate>>
  /\ UNCHANGED <<products, on_transaction_item_created, previewvars, message_templates, txvars, formvars>>

\* lines 216-217
TriggerRetention ==
  /\ pc = "retention"
  /\ IF SqlEnabled(Val(v_config), "retention")
     THEN /\ v_current_month' = v_interval
          /\ pc' = "loop"
     ELSE /\ pc' = "maturity"
          /\ UNCHANGED v_current_month
  /\ UNCHANGED <<dbvars, NEW_cp, v_config, v_lifecycle, v_interval, v_templates, sqlstate,
                 previewvars, message_templates, txvars, formvars>>

\* lines 218-225, one evaluation of the WHILE condition and, if true, one body
TriggerLoop ==
  /\ pc = "loop"
  /\ IF TriggerLoopCond(Val(v_current_month), Val(v_lifecycle))
     THEN LET row == TaskRow(Val(NEW_cp), "retention", Val(v_current_month),
                             AddDays(Val(NEW_cp).installation_date, Val(v_current_month) * 30),
                             <<"Service Reminder - Month ", Val(v_current_month)>>,
                             Coalesce2(JsonText(Val(v_config), "retention", "message_template_id"),
                                       v_retention_template))
          IN IF ~ReferencesTemplate(row.message_template_id)
             THEN TriggerRaise(ForeignKeyViolation)
             ELSE /\ Len(TasksOf(Val(NEW_cp).id)) < MaxNodes
                  /\ scheduled_service_tasks' = Append(scheduled_service_tasks, row)
                  /\ v_current_month' = Some(Val(v_current_month) + Val(v_interval))
                  /\ UNCHANGED <<transaction_items, customer_products, NEW_cp, pc, v_config,
                                 v_lifecycle, v_interval, v_templates, sqlstate>>
     ELSE /\ pc' = "maturity"
          /\ UNCHANGED <<transaction_items, customer_products, scheduled_service_tasks, NEW_cp,
                         v_config, v_lifecycle, v_interval, v_current_month, v_templates, sqlstate>>
  /\ UNCHANGED <<products, on_transaction_item_created, previewvars, message_templates, txvars, formvars>>

\* lines 228-237
TriggerMaturity ==
  /\ pc = "maturity"
  /\ LET row == TaskRow(Val(NEW_cp), "maturity", Val(v_lifecycle),
                        AddDays(Val(NEW_cp).installation_date, Val(v_lifecycle) * 30),
                        Coalesce(JsonText(Val(v_config), "maturity", "task_name"),
                                 <<"Call for MA Renewal">>),
                        Coalesce2(JsonText(Val(v_config), "maturity", "message_template_id"),
                                  v_maturity_template))
     IN IF SqlEnabled(Val(v_config), "maturity") /\ ~ReferencesTemplate(row.message_template_id)
        THEN TriggerRaise(ForeignKeyViolation)
        ELSE /\ scheduled_service_tasks' =
                  IF SqlEnabled(Val(v_config), "maturity")
                  THEN Append(scheduled_service_tasks, row)
                  ELSE scheduled_service_tasks
             /\ TriggerReturn
             /\ UNCHANGED <<transaction_items, customer_products, sqlstate>>
  /\ UNCHANGED <<products, on_transaction_item_created, previewvars, message_templates, txvars, formvars>>

TriggerStep ==
  \/ TriggerBegin
  \/ TriggerOnboarding
  \/ TriggerRetention
  \/ TriggerLoop
  \/ TriggerMaturity

\* ------------------------------------ ServiceFlowTimeline.generateTimelineNodes
\* service_flow_config?.[phase]?.enabled used as a condition
JsEnabled(config, phase) ==
  /\ ~IsNull(config)
  /\ ~IsNull(Val(config)[phase])
  /\ Val(Val(config)[phase]).enabled

\* a null number in an arithmetic comparison or sum is 0
JsNumber(x) == Coalesce(x, 0)

\* if (!lifecycle_months || lifecycle_months <= 0) return nodes
PreviewSkip(lifecycle_months) ==
  \/ IsNull(lifecycle_months)
  \/ Val(lifecycle_months) = 0
  \/ Val(lifecycle_months) <= 0

\* if (service_flow_config?.retention?.enabled && service_interval_months > 0)
PreviewRetentionGuardNoInterval(config, service_interval_months) ==
  JsEnabled(config, "retention")

PreviewRetentionGuard(config, service_interval_months) ==
  /\ JsEnabled(config, "retention")
  /\ JsNumber(service_interval_months) > 0

\* while (currentMonth < lifecycle_months)
PreviewLoopCondInclusive(month, lifecycle_months) == month <= JsNumber(lifecycle_months)

PreviewLoopCond(month, lifecycle_months) == month < JsNumber(lifecycle_months)

\* one FlowPreviewNode
Node(month, date, phase) ==
  [month |-> month, date |-> formatDate(date), phase |-> phase]

\* lines 18-21
PreviewBegin ==
  /\ ppc = "begin"
  /\ nodes' = <<>>
  /\ ppc' = IF PreviewSkip(product.lifecycle_months) THEN "done" ELSE "onboarding"
  /\ UNCHANGED <<dbvars, trigvars, message_templates, txvars, formvars, product, serviceStartDate, currentMonth>>

\* lines 23-33
PreviewOnboarding ==
  /\ ppc = "onboarding"
  /\ nodes' =
       IF JsEnabled(product.service_flow_config, "onboarding")
       THEN Append(nodes, Node(0, serviceStartDate, "onboarding"))
       ELSE nodes
  /\ ppc' = "retention"
  /\ UNCHANGED <<dbvars, trigvars, message_templates, txvars, formvars, product, serviceStartDate, currentMonth>>

\* lines 36-37
PreviewRetention ==
  /\ ppc = "retention"
  /\ IF PreviewRetentionGuard(product.service_flow_config, product.service_interval_months)
     THEN /\ currentMonth' = Some(JsNumber(product.service_interval_months))
          /\ ppc' = "loop"
     ELSE /\ ppc' = "maturity"
          /\ UNCHANGED currentMonth
  /\ UNCHANGED <<dbvars, trigvars, message_templates, txvars, formvars, product, serviceStartDate, nodes>>

\* lines 38-49, one evaluation of the while condition and, if true, one body
PreviewLoop ==
  /\ ppc = "loop"
  /\ IF PreviewLoopCond(Val(currentMonth), product.lifecycle_months)
     THEN /\ Len(nodes) < MaxNodes
          /\ nodes' = Append(nodes, Node(Val(currentMonth),
                                         SetMonth(serviceStartDate, Val(currentMonth)),
                                         "retention"))
          /\ currentMonth' = Some(Val(currentMonth) + JsNumber(product.service_interval_months))
          /\ UNCHANGED ppc
     ELSE /\ ppc' = "maturity"
          /\ UNCHANGED <<nodes, currentMonth>>
  /\ UNCHANGED <<dbvars, trigvars, message_templates, txvars, formvars, product, serviceStartDate>>

\* lines 52-65
PreviewMaturity ==
  /\ ppc = "maturity"
  /\ nodes' =
       IF JsEnabled(product.service_flow_config, "maturity")
       THEN Append(nodes, Node(JsNumber(product.lifecycle_months),
                               SetMonth(serviceStartDate, JsNumber(product.lifecycle_months)),
                               "maturity"))
       ELSE nodes
  /\ ppc' = "done"
  /\ currentMonth' = NULL
  /\ UNCHANGED <<dbvars, trigvars, message_templates, txvars, formvars, product, serviceStartDate>>

PreviewStep ==
  \/ PreviewBegin
  \/ PreviewOnboarding
  \/ PreviewRetention
  \/ PreviewLoop
  \/ PreviewMaturity

\* --------------------------------------------- rows of the modelled tables
ProductRow(type, has_flow, lifecycle, interval, config, usage_duration_days) ==
  [product_type |-> type,
   has_service_flow |-> has_flow,
   lifecycle_months |-> lifecycle,
   service_interval_months |-> interval,
   service_flow_config |-> config,
   usage_duration_days |-> usage_duration_days]

\* the customer_products row the purchase trigger inserts (the columns the
\* schedule is generated from)
CustomerProductRow(id, product_id, item_id, install_date, warranty_end_date, next_service_date, p) ==
  [id |-> id,
   product_id |-> product_id,
   transaction_item_id |-> item_id,
   installation_date |-> install_date,
   warranty_end_date |-> warranty_end_date,
   next_service_date |-> next_service_date,
   status |-> "active",
   service_flow_config_snapshot |-> p.service_flow_config,
   lifecycle_months_snapshot |-> p.lifecycle_months,
   service_interval_months_snapshot |-> p.service_interval_months]

ProductIds == {1}

\* IF v_product.lifecycle_months > 0 THEN v_warranty_days := lifecycle_months * 30
\* ELSE v_warranty_days := COALESCE(usage_duration_days, 365); a comparison with
\* NULL is not true (first: without the fallback for a missing value)
WarrantyDaysNoDefault(v_product) ==
  IF Coalesce(v_product.lifecycle_months, 0) > 0
  THEN Val(v_product.lifecycle_months) * 30
  ELSE Coalesce(v_product.usage_duration_days, 0)

WarrantyDays(v_product) ==
  IF ~IsNull(v_product.lifecycle_months) /\ Val(v_product.lifecycle_months) > 0
  THEN Val(v_product.lifecycle_months) * 30
  ELSE Coalesce(v_product.usage_duration_days, 365)

\* auto_create_customer_product_v2: COALESCE(v_product.service_interval_months, 6) * 30
ServiceDays(v_product) == Coalesce(v_product.service_interval_months, 6) * 30

\* auto_create_customer_product: v_service_days
v_service_days(v_product) ==
  IF ~IsNull(v_product.lifecycle_months) /\ Val(v_product.lifecycle_months) > 0
  THEN Coalesce(v_product.service_interval_months, 6) * 30
  ELSE Coalesce(v_product.usage_duration_days, 30)

\* -------------------------------------------------------------------- text
DigitChars == <<"0", "1", "2", "3", "4", "5", "6", "7", "8", "9">>

RECURSIVE DecimalText(_)
\* n::TEXT for an integer n >= 0
DecimalText(n) ==
  IF n < 10 THEN <<DigitChars[n + 1]>>
  ELSE DecimalText(n \div 10) \o <<DigitChars[(n % 10) + 1]>>

\* LPAD(text, length, fill) with a one-character fill: a longer text is cut to
\* its first length characters
LPAD(text, length, fill) ==
  IF Len(text) >= length THEN SubSeq(text, 1, length)
  ELSE [k \in 1..(length - Len(text)) |-> fill] \o text

LEFT(text, n) == SubSeq(text, 1, IF n < Len(text) THEN n ELSE Len(text))

\* UPPER on the characters a uuid text is made of
UpperChar(c) ==
  CASE c = "a" -> "A" [] c = "b" -> "B" [] c = "c" -> "C"
    [] c = "d" -> "D" [] c = "e" -> "E" [] c = "f" -> "F"
    [] OTHER -> c

UPPER(text) == [k \in 1..Len(text) |-> UpperChar(text[k])]

\* TO_CHAR(date, 'YYYYMM')
TO_CHAR(date) == LPAD(DecimalText(date.y), 4, "0") \o LPAD(DecimalText(date.m), 2, "0")

\* text LIKE prefix || '%', for a prefix without % and _
StartsWith(text, prefix) ==
  /\ Len(text) >= Len(prefix)
  /\ SubSeq(text, 1, Len(prefix)) = prefix

\* ------------------------------------------------------ the clock and sales
\* CURRENT_DATE of the session, and the date a sale form sends as service_start_date
CurrentDate == Date(2025, 3, 1)

StartDate == Date(2025, 1, 31)

\* database sessions inserting transactions at the same time
Sessions == {1, 2}

\* width of the sequence part of a transaction number
PadWidth == 3

\* customer ids, as the leading characters of id::TEXT; the first two agree on
\* their first six characters
CustomerIds ==
  {<<"a", "1", "b", "2", "c", "3", "0", "1">>,
   <<"a", "1", "b", "2", "c", "3", "0", "2">>,
   <<"9", "f", "0", "0", "d", "e", "7", "7">>}

\* a transaction number the caller supplies
SuppliedNumbers == {<<"P", "O", "-", "7">>}

\* enable_vat and vat_rate of a tenants row: the column defaults, or VAT
\* switched off through settingsService.updateVatSettings
TenantSettings == {[enable_vat |-> e, vat_rate |-> 7] : e \in BOOLEAN}

\* initialData of a form opened on a stored transaction (the fields the form
\* reads besides the dates and texts)
StoredTransaction ==
  [customer |-> <<"a", "1", "b", "2", "c", "3", "0", "1">>,
   transaction_date |-> StartDate,
   discount_amount |-> 0,
   send_line_notification |-> TRUE]

\* the useState initial values of TransactionFormV2, today being CurrentDate
FormMounted ==
  /\ selectedCustomer = (IF IsNull(initialData) THEN NULL ELSE Some(Val(initialData).customer))
  /\ transactionDate =
       (IF IsNull(initialData) THEN CurrentDate ELSE Val(initialData).transaction_date)
  /\ items = <<>>
  /\ discount = (IF IsNull(initialData) THEN 0 ELSE Val(initialData).discount_amount)
  /\ sendLineNotification =
       (IF IsNull(initialData) THEN FALSE ELSE Val(initialData).send_line_notification)
  /\ loading = FALSE
  /\ success = FALSE
  /\ saved = NULL
  /\ submit = "idle"
  /\ onSuccess = "none"
  /\ lineCalls = 0
  /\ logged = {}

\* no sale is being entered and no transaction has been inserted
NoSales ==
  /\ transactions = <<>>
  /\ NEW_tx = [s \in Sessions |-> NULL]
  /\ now = CurrentDate
  /\ tenants = [enable_vat |-> TRUE, vat_rate |-> 7]
  /\ initialData = NULL
  /\ FormMounted

\* ------------------------------------------- the generator on its own
\* One customer_products row has just been inserted for a product, and the
\* timeline of the same product is mounted with the same start date: the
\* trigger and the preview then run on identical inputs.
GenInit ==
  \E lifecycle \in Nullable(Months), interval \in Nullable(Months),
     config \in Nullable(Configs), anchor \in Anchors :
    LET p == ProductRow(Some("tangible"), TRUE, lifecycle, interval, config, NULL)
        cp == CustomerProductRow(1, 1, 1, anchor, AddDays(anchor, WarrantyDays(p)),
                                 AddDays(anchor, ServiceDays(p)), p)
    IN /\ products = [id \in ProductIds |-> p]
       /\ on_transaction_item_created = "auto_create_customer_product_v2"
       /\ transaction_items =
            <<[id |-> 1, product_id |-> 1, enable_service_flow |-> TRUE,
               service_start_date |-> Some(anchor)]>>
       /\ customer_products = <<cp>>
       /\ scheduled_service_tasks = <<>>
       /\ NEW_cp = Some(cp)
       /\ pc = "begin"
       /\ v_config = NULL
       /\ v_lifecycle = NULL
       /\ v_interval = NULL
       /\ v_current_month = NULL
       /\ v_onboarding_template = NULL
       /\ v_retention_template = NULL
       /\ v_maturity_template = NULL
       /\ sqlstate = NULL
       /\ message_templates = SeedTemplates
       /\ product = p
       /\ serviceStartDate = anchor
       /\ ppc = "begin"
       /\ nodes = <<>>
       /\ currentMonth = NULL
       /\ NoSales

GenNext ==
  \/ TriggerStep
  \/ PreviewStep

GenSpec == GenInit /\ [][GenNext]_vars

\* ------------------------------------------------------------ the database
\* DEFAULT_SERVICE_FLOW_CONFIG, taken to be the column default of
\* products.service_flow_config: every phase enabled
DEFAULT_SERVICE_FLOW_CONFIG == Config(TRUE, TRUE, TRUE)

\* values a product form is submitted with
DbConfigs == {Config(TRUE, TRUE, TRUE), Config(TRUE, FALSE, FALSE)}

DbLifecycles == {0, 3}

DbIntervals == {0, 1}

ProductTypes == {"tangible", "service"}

\* productData of ProductForm.handleSubmit: without a service flow the
\* lifecycle and the interval are saved as 0 and the config as the default
ProductDataAsEntered(productType, hasServiceFlow, lifecycleMonths, serviceIntervalMonths, serviceFlowConfig) ==
  ProductRow(Some(productType), hasServiceFlow, Some(lifecycleMonths),
             Some(serviceIntervalMonths), Some(serviceFlowConfig), NULL)

ProductData(productType, hasServiceFlow, lifecycleMonths, serviceIntervalMonths, serviceFlowConfig) ==
  ProductRow(Some(productType),
             hasServiceFlow,
             Some(IF hasServiceFlow THEN lifecycleMonths ELSE 0),
             Some(IF hasServiceFlow THEN serviceIntervalMonths ELSE 0),
             Some(IF hasServiceFlow THEN serviceFlowConfig ELSE DEFAULT_SERVICE_FLOW_CONFIG),
             NULL)

FormProducts ==
  {ProductData(t, h, l, i, c) :
     t \in ProductTypes, h \in BOOLEAN, l \in DbLifecycles, i \in DbIntervals,
     c \in DbConfigs}

\* a saved product form on an existing product: productService.updateProduct
\* overwrites the row; customer_products rows are not touched
UpdateProductCascade(id, data) ==
  /\ pc = "idle"
  /\ products' = [products EXCEPT ![id] = data]
  /\ customer_products' =
       [k \in 1..Len(customer_products) |->
          IF customer_products[k].product_id = id
          THEN [customer_products[k] EXCEPT
                  !.service_flow_config_snapshot = data.service_flow_config,
                  !.lifecycle_months_snapshot = data.lifecycle_months,
                  !.service_interval_months_snapshot = data.service_interval_months]
          ELSE customer_products[k]]
  /\ UNCHANGED <<on_transaction_item_created, transaction_items, scheduled_service_tasks, trigvars,
                 previewvars, message_templates, txvars, formvars>>

UpdateProduct(id, data) ==
  /\ pc = "idle"
  /\ products' = [products EXCEPT ![id] = data]
  /\ UNCHANGED <<on_transaction_item_created, transaction_items, customer_products,
                 scheduled_service_tasks, trigvars, previewvars, message_templates, txvars, formvars>>

\* messageTemplateService.updateTemplate(id, {is_default})
UpdateTemplate(id, is_default) ==
  /\ pc = "idle"
  /\ message_templates' =
       [k \in 1..Len(message_templates) |->
          IF message_templates[k].id = id
          THEN [message_templates[k] EXCEPT !.is_default = is_default]
          ELSE message_templates[k]]
  /\ UNCHANGED <<dbvars, trigvars, previewvars, txvars, formvars>>

\* id of the row messageTemplateService.createTemplate inserts: a new one
NewTemplateId == 4

\* ids found in the message_template_id of a service flow config
ConfigTemplateIds(config) ==
  IF IsNull(config) THEN {}
  ELSE {Val(JsonText(Val(config), phase, "message_template_id")) :
          phase \in {ph \in Phases : ~IsNull(JsonText(Val(config), ph, "message_template_id"))}}

\* messageTemplateService.createTemplate({type, is_default}); the id the row
\* gets has never been used
CreateTemplate(type, is_default) ==
  /\ pc = "idle"
  /\ \A row \in Range(message_templates) : row.id # NewTemplateId
  /\ \A id \in DOMAIN products : NewTemplateId \notin ConfigTemplateIds(products[id].service_flow_config)
  /\ \A cp \in Range(customer_products) :
       NewTemplateId \notin ConfigTemplateIds(cp.service_flow_config_snapshot)
  /\ message_templates' = Append(message_templates, TemplateRow(NewTemplateId, type, is_default))
  /\ UNCHANGED <<dbvars, trigvars, previewvars, txvars, formvars>>

\* messageTemplateService.deleteTemplate(id): refused while a
\* scheduled_service_tasks row references the template
DeleteTemplate(id) ==
  /\ pc = "idle"
  /\ message_templates' =
       IF \E t \in Range(scheduled_service_tasks) : t.message_template_id = Some(id)
       THEN message_templates
       ELSE SelectSeq(message_templates, LAMBDA row : row.id # id)
  /\ UNCHANGED <<dbvars, trigvars, previewvars, txvars, formvars>>

\* product ids a transaction item is inserted with: those of the products
\* table and one that no products row has
ItemProductIds == ProductIds \cup {2}

\* v_product when SELECT * INTO v_product finds no row: every field is NULL
NotFound == ProductRow(NULL, NULL, NULL, NULL, NULL, NULL)

\* SELECT * INTO v_product FROM products WHERE id = NEW.product_id
SelectProduct(product_id) ==
  IF product_id \in DOMAIN products THEN products[product_id] ELSE NotFound

\* v_install_date := COALESCE(NEW.service_start_date, CURRENT_DATE)
InstallDateCurrent(service_start_date) == CurrentDate

InstallDate(service_start_date) == Coalesce(service_start_date, CurrentDate)

\* IF v_product.product_type = 'tangible' OR v_product.product_type IS NULL
CreatesCustomerProductAlways(v_product) == TRUE

CreatesCustomerProduct(v_product) ==
  v_product.product_type = Some("tangible") \/ IsNull(v_product.product_type)

\* auto_create_customer_product of the lifecycle migration, for the inserted
\* item NEW_item: the customer_products row it inserts under the key id
auto_create_customer_product(NEW_item, id) ==
  LET v_product == SelectProduct(NEW_item.product_id)
  IN Some(CustomerProductRow(id, NEW_item.product_id, NEW_item.id, CurrentDate,
                             AddDays(CurrentDate, WarrantyDays(v_product)),
                             AddDays(CurrentDate, v_service_days(v_product)),
                             v_product))

\* auto_create_customer_product_v2 of the transaction migration: the row it
\* inserts, NULL when it inserts none
auto_create_customer_product_v2(NEW_item, id) ==
  LET v_product == SelectProduct(NEW_item.product_id)
      v_install_date == InstallDate(NEW_item.service_start_date)
  IN IF CreatesCustomerProduct(v_product)
     THEN Some(CustomerProductRow(id, NEW_item.product_id, NEW_item.id, v_install_date,
                                  AddDays(v_install_date, WarrantyDays(v_product)),
                                  AddDays(v_install_date, ServiceDays(v_product)),
                                  v_product))
     ELSE NULL

\* the functions on_transaction_item_created can execute
ItemTriggerFunctions == {"auto_create_customer_product", "auto_create_customer_product_v2"}

\* INSERT INTO transaction_items fires on_transaction_item_created: for a
\* tangible product (the older function: for every product) a customer_products
\* row is inserted with the product's current configuration, and that insert
\* fires on_customer_product_created_schedule, whose function then runs on the
\* new row before anything else happens
InsertTransactionItem(product_id, enable_service_flow, service_start_date) ==
  /\ pc = "idle"
  /\ Len(transaction_items) < MaxItems
  /\ LET item == [id |-> Len(transaction_items) + 1,
                  product_id |-> product_id,
                  enable_service_flow |-> enable_service_flow,
                  service_start_date |-> service_start_date]
         inserted ==
           IF on_transaction_item_created = "auto_create_customer_product_v2"
           THEN auto_create_customer_product_v2(item, Len(customer_products) + 1)
           ELSE auto_create_customer_product(item, Len(customer_products) + 1)
     IN /\ transaction_items' = Append(transaction_items, item)
        /\ IF ~IsNull(inserted)
           THEN /\ customer_products' = Append(customer_products, Val(inserted))
                /\ NEW_cp' = inserted
                /\ pc' = "begin"
           ELSE UNCHANGED <<customer_products, NEW_cp, pc>>
  /\ sqlstate' = NULL
  /\ UNCHANGED <<products, on_transaction_item_created, scheduled_service_tasks, v_config,
                 v_lifecycle, v_interval, v_current_month, v_templates, previewvars,
                 message_templates, txvars, formvars>>

\* the transaction migration is run: DROP TRIGGER, CREATE TRIGGER ... EXECUTE
\* FUNCTION auto_create_customer_product_v2()
ReplaceItemTrigger ==
  /\ pc = "idle"
  /\ on_transaction_item_created = "auto_create_customer_product"
  /\ on_transaction_item_created' = "auto_create_customer_product_v2"
  /\ UNCHANGED <<products, transaction_items, customer_products, scheduled_service_tasks,
                 trigvars, previewvars, message_templates, txvars, formvars>>

\* no timeline is mounted
NoProduct == ProductRow(NULL, FALSE, NULL, NULL, NULL, NULL)

\* the tables after the migrations, no trigger running, no timeline mounted
EmptyDatabase ==
  /\ transaction_items = <<>>
  /\ customer_products = <<>>
  /\ scheduled_service_tasks = <<>>
  /\ message_templates = SeedTemplates
  /\ NEW_cp = NULL
  /\ pc = "idle"
  /\ v_config = NULL
  /\ v_lifecycle = NULL
  /\ v_interval = NULL
  /\ v_current_month = NULL
  /\ v_onboarding_template = NULL
  /\ v_retention_template = NULL
  /\ v_maturity_template = NULL
  /\ sqlstate = NULL
  /\ product = NoProduct
  /\ serviceStartDate = CurrentDate
  /\ ppc = "done"
  /\ nodes = <<>>
  /\ currentMonth = NULL

Init ==
  /\ products \in [ProductIds -> FormProducts]
  /\ on_transaction_item_created = "auto_create_customer_product_v2"
  /\ EmptyDatabase
  /\ NoSales

Next ==
  \/ \E id \in ProductIds, data \in FormProducts : UpdateProduct(id, data)
  \/ \E id \in ItemProductIds, date \in Nullable({StartDate}) :
       InsertTransactionItem(id, ~IsNull(date), date)
  \/ TriggerStep

Spec == Init /\ [][Next]_vars

\* ------------------------- purchases before and after the transaction migration
\* products rows as any client of the database can have written them: tangible,
\* the lifecycle and the interval unset, zero or positive, usage_duration_days
\* unset or 90
PurchaseProducts ==
  {ProductRow(Some("tangible"), Coalesce(l, 0) > 0, l, i, Some(DEFAULT_SERVICE_FLOW_CONFIG), u) :
     l \in Nullable({0, 3}), i \in Nullable({0, 1}), u \in Nullable({90})}

\* the lifecycle migration has been run, the transaction migration not yet
PurchaseInit ==
  /\ products \in [ProductIds -> PurchaseProducts]
  /\ on_transaction_item_created = "auto_create_customer_product"
  /\ EmptyDatabase
  /\ NoSales

PurchaseNext ==
  \/ \E id \in ItemProductIds, enable_service_flow \in BOOLEAN, date \in Nullable({StartDate}) :
       InsertTransactionItem(id, enable_service_flow, date)
  \/ ReplaceItemTrigger
  \/ TriggerStep

PurchaseSpec == PurchaseInit /\ [][PurchaseNext]_vars

\* --------------------------------- purchases while the templates are edited
\* a tangible product with a service flow and every phase enabled
TplProduct == ProductData("tangible", TRUE, 3, 1, Config(TRUE, TRUE, TRUE))

\* the same with a template chosen for the maturity phase in ServiceFlowBuilder
ConfigWithTemplate(phase, id) ==
  [Config(TRUE, TRUE, TRUE) EXCEPT ![phase] = Some([enabled |-> TRUE, message_template_id |-> Some(id)])]

\* what the product form is saved with: no template chosen, or one of the
\* maturity templates the table holds
TplProducts ==
  {TplProduct}
  \cup {ProductData("tangible", TRUE, 3, 1, ConfigWithTemplate("maturity", row.id)) :
          row \in {r \in Range(message_templates) : r.type = "maturity"}}

\* templates that are edited and deleted
EditedTemplateIds == {3, NewTemplateId}

TplInit ==
  /\ products = [id \in ProductIds |-> TplProduct]
  /\ on_transaction_item_created = "auto_create_customer_product_v2"
  /\ EmptyDatabase
  /\ NoSales

TplNext ==
  \/ \E id \in ItemProductIds, date \in Nullable({StartDate}) :
       InsertTransactionItem(id, ~IsNull(date), date)
  \/ \E id \in EditedTemplateIds, is_default \in BOOLEAN : UpdateTemplate(id, is_default)
  \/ \E is_default \in BOOLEAN : CreateTemplate("maturity", is_default)
  \/ \E id \in EditedTemplateIds : DeleteTemplate(id)
  \/ \E id \in ProductIds, data \in TplProducts : UpdateProduct(id, data)
  \/ TriggerStep

TplSpec == TplInit /\ [][TplNext]_vars

\* ----------------------------------------------------- transaction numbers
\* a transactions row (the columns the numbering trigger reads and writes)
TransactionRow(customer_id, transaction_no) ==
  [customer_id |-> customer_id, transaction_no |-> transaction_no]

\* v_prefix
TransactionPrefix(customer_id, date) ==
  <<"I", "N", "V", "-">> \o TO_CHAR(date) \o <<"-">> \o UPPER(LEFT(customer_id, 6)) \o <<"-">>

\* generate_transaction_number: NEW.transaction_no for NEW.customer_id, counted
\* over the rows the session sees
generate_transaction_number(customer_id) ==
  LET v_prefix == TransactionPrefix(customer_id, now)
      v_count ==
        Len(SelectSeq(transactions,
                      LAMBDA t : /\ ~IsNull(t.transaction_no)
                                 /\ StartsWith(Val(t.transaction_no), v_prefix))) + 1
  IN v_prefix \o LPAD(DecimalText(v_count), PadWidth, "0")

\* on_transaction_generate_number: BEFORE INSERT ... WHEN (NEW.transaction_no IS NULL)
BeforeInsertTransaction(customer_id, transaction_no) ==
  TransactionRow(customer_id,
                 IF IsNull(transaction_no)
                 THEN Some(generate_transaction_number(customer_id))
                 ELSE transaction_no)

\* the numbers one customer prefix has been given in the current month when
\* two more fill the sequence part
HistoryLen == (10 ^ PadWidth) - 2

History ==
  LET c == <<"a", "1", "b", "2", "c", "3", "0", "1">>
  IN [k \in 1..HistoryLen |->
        TransactionRow(c, Some(TransactionPrefix(c, CurrentDate)
                               \o LPAD(DecimalText(k), PadWidth, "0")))]

\* rows the table started the behaviour with
Started == IF Len(transactions) >= HistoryLen THEN HistoryLen ELSE 0

Pending == {s \in Sessions : ~IsNull(NEW_tx[s])}

\* INSERT INTO transactions by session s, up to and including the BEFORE INSERT
\* trigger: NEW is complete, the row is not yet visible to another session
InsertTransaction(s, customer_id, transaction_no) ==
  /\ IsNull(NEW_tx[s])
  /\ (Len(transactions) - Started) + Cardinality(Pending) < MaxTransactions
  /\ NEW_tx' = [NEW_tx EXCEPT ![s] = Some(BeforeInsertTransaction(customer_id, transaction_no))]
  /\ UNCHANGED <<transactions, now, dbvars, trigvars, previewvars, message_templates, formvars>>

\* the inserted row becomes visible: transactions has no unique index on
\* transaction_no, the insert cannot fail on it (first the same with one)
CommitTransactionUnique(s) ==
  /\ ~IsNull(NEW_tx[s])
  /\ transactions' =
       IF \E k \in 1..Len(transactions) :
            transactions[k].transaction_no = Val(NEW_tx[s]).transaction_no
       THEN transactions
       ELSE Append(transactions, Val(NEW_tx[s]))
  /\ NEW_tx' = [NEW_tx EXCEPT ![s] = NULL]
  /\ UNCHANGED <<now, dbvars, trigvars, previewvars, message_templates, formvars>>

CommitTransaction(s) ==
  /\ ~IsNull(NEW_tx[s])
  /\ transactions' = Append(transactions, Val(NEW_tx[s]))
  /\ NEW_tx' = [NEW_tx EXCEPT ![s] = NULL]
  /\ UNCHANGED <<now, dbvars, trigvars, previewvars, message_templates, formvars>>

\* the first day of the next month begins
ClockTick ==
  /\ now = CurrentDate
  /\ now' = AddDays(now, DaysInMonth(now.y, now.m) - now.d + 1)
  /\ UNCHANGED <<transactions, NEW_tx, dbvars, trigvars, previewvars, message_templates, formvars>>

TxInit ==
  /\ products \in [ProductIds -> {TplProduct}]
  /\ on_transaction_item_created = "auto_create_customer_product_v2"
  /\ EmptyDatabase
  /\ NEW_tx = [s \in Sessions |-> NULL]
  /\ now = CurrentDate
  /\ tenants = [enable_vat |-> TRUE, vat_rate |-> 7]
  /\ initialData = NULL
  /\ FormMounted
  /\ transactions \in {<<>>, History}

TxNext ==
  \/ \E s \in Sessions, c \in CustomerIds, no \in Nullable(SuppliedNumbers) :
       InsertTransaction(s, c, no)
  \/ \E s \in Sessions : CommitTransaction(s)
  \/ ClockTick

TxSpec == TxInit /\ [][TxNext]_vars

\* ------------------------------------ one session inserting and deleting
\* DELETE FROM transactions of one stored row, while no insert is under way
DeleteTransaction(k) ==
  /\ Pending = {}
  /\ k \in 1..Len(transactions)
  /\ transactions' = SubSeq(transactions, 1, k - 1) \o SubSeq(transactions, k + 1, Len(transactions))
  /\ UNCHANGED <<NEW_tx, now, dbvars, trigvars, previewvars, message_templates, formvars>>

\* the session that works alone
SoleSession == 1

SeqTxInit ==
  /\ TxInit
  /\ transactions = <<>>

\* every insert is stored before the next statement begins
SeqTxNext ==
  \/ \E c \in CustomerIds : InsertTransaction(SoleSession, c, NULL)
  \/ CommitTransaction(SoleSession)
  \/ \E k \in 1..MaxTransactions : DeleteTransaction(k)
  \/ ClockTick

SeqTxSpec == SeqTxInit /\ [][SeqTxNext]_vars

\* ------------------------------------------------------------ the sale form
\* useState<VatSettings>({enable_vat: true, vat_rate: 7}); setVatSettings is
\* never called
vatSettings == [enable_vat |-> TRUE, vat_rate |-> 7]

\* products the form loaded, with their selling_price and has_service_flow
FormProductIds == {1, 2}

selling_price(id) == 50 * id

has_service_flow(id) == id = 1

\* customers.line_user_id of a customer: the last of the three has none
line_user_id(customer) ==
  IF customer = <<"9", "f", "0", "0", "d", "e", "7", "7">> THEN NULL ELSE Some("U1")

\* what is typed into the quantity and the discount inputs and picked in the
\* date inputs
QuantityInputs == {0, 2}

DiscountInputs == {-10, 0, 30, 200}

DateInputs == {StartDate}

\* new Date().toISOString().split('T')[0]
today == now

\* newItem of handleAddItem; product_id '' is NULL
NewItem ==
  [product_id |-> NULL, quantity |-> 1, unit_price |-> 0, total_price |-> 0,
   enable_service_flow |-> FALSE, service_start_date |-> Some(today)]

RECURSIVE SumTotalPrice(_)
SumTotalPrice(seq) ==
  IF seq = <<>> THEN 0
  ELSE SumTotalPrice(SubSeq(seq, 1, Len(seq) - 1)) + seq[Len(seq)].total_price

calculateSubtotal == SumTotalPrice(items)

\* Math.round(num / den) for den > 0: the nearest integer, a tie going up. The
\* form computes the quotient in floating point, as amount * (vat_rate / 100);
\* a negative product at a tie can come out just below the tie and is then
\* rounded down, so both neighbours are outcomes there
MathRound(num, den) ==
  LET up == (2 * num + den) \div (2 * den)
  IN IF num < 0 /\ (2 * num + den) % (2 * den) = 0 THEN {up, up - 1} ELSE {up}

\* the values calculateGrandTotal can return
calculateGrandTotal ==
  LET subtotal == calculateSubtotal
      afterDiscount == subtotal - discount
  IN {afterDiscount + vat :
        vat \in IF vatSettings.enable_vat
                THEN MathRound(afterDiscount * vatSettings.vat_rate, 100)
                ELSE {0}}

\* items.some(i => i.product_id)
SomeProduct == \E k \in 1..Len(items) : ~IsNull(items[k].product_id)

\* the form is shown and its fields are still being filled in
Editing == IsNull(saved) /\ ~success

\* ProductPickerItem: the serviceStartDate it gives the ServiceFlowTimeline
TimelineAnchor(item) ==
  IF IsNull(item.service_start_date) THEN today ELSE Val(item.service_start_date)

\* CustomerSelector onSelect
SelectCustomer(customer) ==
  /\ Editing
  /\ selectedCustomer' = Some(customer)
  /\ UNCHANGED <<tenants, initialData, transactionDate, items, discount, sendLineNotification,
                 submitvars, dbvars, trigvars, previewvars, message_templates, txvars>>

\* the transaction date input
setTransactionDate(date) ==
  /\ Editing
  /\ transactionDate' = date
  /\ UNCHANGED <<tenants, initialData, selectedCustomer, items, discount, sendLineNotification,
                 submitvars, dbvars, trigvars, previewvars, message_templates, txvars>>

handleAddItem ==
  /\ Editing
  /\ Len(items) < MaxFormItems
  /\ items' = Append(items, NewItem)
  /\ UNCHANGED <<tenants, initialData, selectedCustomer, transactionDate, discount,
                 sendLineNotification, submitvars, dbvars, trigvars, previewvars,
                 message_templates, txvars>>

\* handleUpdateItem(index, item)
handleUpdateItem(index, item) ==
  /\ items' = [items EXCEPT ![index] = item]
  /\ UNCHANGED <<tenants, initialData, selectedCustomer, transactionDate, discount,
                 sendLineNotification, submitvars, dbvars, trigvars, previewvars,
                 message_templates, txvars>>

\* ProductPickerItem.handleProductChange with a product of the list
handleProductChange(index, productId) ==
  /\ Editing
  /\ index \in 1..Len(items)
  /\ handleUpdateItem(index,
       [items[index] EXCEPT
          !.product_id = Some(productId),
          !.unit_price = selling_price(productId),
          !.total_price = items[index].quantity * selling_price(productId),
          !.enable_service_flow = has_service_flow(productId),
          !.service_start_date = IF has_service_flow(productId) THEN Some(today) ELSE NULL])

\* ProductPickerItem.handleQuantityChange(parseInt(value) || 1)
handleQuantityChange(index, value) ==
  /\ Editing
  /\ index \in 1..Len(items)
  /\ LET quantity == IF value = 0 THEN 1 ELSE value
         qty == IF quantity > 1 THEN quantity ELSE 1
     IN handleUpdateItem(index,
          [items[index] EXCEPT !.quantity = qty, !.total_price = qty * items[index].unit_price])

\* the Auto Service toggle, shown for an item whose product has a service flow
handleServiceFlowToggle(index) ==
  /\ Editing
  /\ index \in 1..Len(items)
  /\ ~IsNull(items[index].product_id)
  /\ has_service_flow(Val(items[index].product_id))
  /\ handleUpdateItem(index,
       [items[index] EXCEPT
          !.enable_service_flow = ~items[index].enable_service_flow,
          !.service_start_date = IF ~items[index].enable_service_flow THEN Some(today) ELSE NULL])

\* the service start date input, shown while the toggle is on
handleServiceStartDateChange(index, date) ==
  /\ Editing
  /\ index \in 1..Len(items)
  /\ ~IsNull(items[index].product_id)
  /\ has_service_flow(Val(items[index].product_id))
  /\ items[index].enable_service_flow
  /\ handleUpdateItem(index, [items[index] EXCEPT !.service_start_date = Some(date)])

handleRemoveItem(index) ==
  /\ Editing
  /\ index \in 1..Len(items)
  /\ items' = SubSeq(items, 1, index - 1) \o SubSeq(items, index + 1, Len(items))
  /\ UNCHANGED <<tenants, initialData, selectedCustomer, transactionDate, discount,
                 sendLineNotification, submitvars, dbvars, trigvars, previewvars,
                 message_templates, txvars>>

\* the discount input of PaymentSection (rendered while an item has a product):
\* onDiscountChange(Math.min(subtotal, parseInt(value) || 0))
onDiscountChange(value) ==
  /\ Editing
  /\ SomeProduct
  /\ discount' = IF calculateSubtotal < value THEN calculateSubtotal ELSE value
  /\ UNCHANGED <<tenants, initialData, selectedCustomer, transactionDate, items,
                 sendLineNotification, submitvars, dbvars, trigvars, previewvars,
                 message_templates, txvars>>

\* the LINE checkbox of PaymentSection
onSendLineChange(checked) ==
  /\ Editing
  /\ SomeProduct
  /\ sendLineNotification' = checked
  /\ UNCHANGED <<tenants, initialData, selectedCustomer, transactionDate, items, discount,
                 submitvars, dbvars, trigvars, previewvars, message_templates, txvars>>

\* handleSubmit, from the submit button (disabled while loading, without a
\* customer and without an item) to the call of transactionService, which gets
\* transactionData and the items that have a product
handleSubmit ==
  /\ submit = "idle"
  /\ ~success
  /\ ~loading
  /\ ~IsNull(selectedCustomer)
  /\ Len(items) # 0
  /\ SomeProduct
  /\ \E netAmount \in calculateGrandTotal :
       saved' = Some([customer_id |-> Val(selectedCustomer),
                      transaction_date |-> transactionDate,
                      total_amount |-> calculateSubtotal,
                      discount_amount |-> discount,
                      net_amount |-> netAmount,
                      send_line_notification |-> sendLineNotification,
                      validItems |-> SelectSeq(items, LAMBDA i : ~IsNull(i.product_id))])
  /\ loading' = TRUE
  /\ submit' = "createTransaction"
  /\ UNCHANGED <<tenants, initialData, selectedCustomer, transactionDate, items, discount,
                 sendLineNotification, success, onSuccess, lineCalls, logged, dbvars, trigvars,
                 previewvars, message_templates, txvars>>

\* lines 166-169 and 174-176: setSuccess(true), setTimeout(onSuccess), and in
\* the finally block setLoading(false)
SubmitSucceeds ==
  /\ success' = TRUE
  /\ onSuccess' = "scheduled"
  /\ loading' = FALSE
  /\ submit' = "idle"

\* lines 171-176: the catch block and the finally block
SubmitFails ==
  /\ logged' = logged \cup {"Failed to save transaction:"}
  /\ loading' = FALSE
  /\ submit' = "idle"
  /\ UNCHANGED <<success, onSuccess>>

\* transactionService.updateTransaction or createTransaction returns or throws;
\* a created transaction is a new transactions row. Lines 142-148
TransactionServiceReturns(ok) ==
  /\ submit = "createTransaction"
  /\ IF ~ok
     THEN SubmitFails /\ UNCHANGED <<lineCalls, transactions>>
     ELSE IF ~IsNull(initialData)
     THEN SubmitSucceeds /\ UNCHANGED <<lineCalls, logged, transactions>>
     ELSE /\ transactions' =
               Append(transactions, BeforeInsertTransaction(Val(saved).customer_id, NULL))
          /\ IF sendLineNotification /\ ~IsNull(line_user_id(Val(selectedCustomer)))
             THEN /\ lineCalls' = lineCalls + 1
                  /\ submit' = "sendMessage"
                  /\ UNCHANGED <<loading, success, onSuccess, logged>>
             ELSE SubmitSucceeds /\ UNCHANGED <<lineCalls, logged>>
  /\ UNCHANGED <<tenants, initialData, selectedCustomer, transactionDate, items, discount,
                 sendLineNotification, saved, dbvars, trigvars, previewvars, message_templates,
                 NEW_tx, now>>

\* lineService.sendMessage returns or throws (first: without the try around
\* it). Lines 149-162
SendMessageReturnsUncaught(ok) ==
  /\ submit = "sendMessage"
  /\ IF ok THEN SubmitSucceeds /\ UNCHANGED logged ELSE SubmitFails
  /\ UNCHANGED <<tenants, initialData, selectedCustomer, transactionDate, items, discount,
                 sendLineNotification, saved, lineCalls, dbvars, trigvars, previewvars,
                 message_templates, txvars>>

SendMessageReturns(ok) ==
  /\ submit = "sendMessage"
  /\ logged' = IF ok THEN logged ELSE logged \cup {"Failed to send LINE notification:"}
  /\ SubmitSucceeds
  /\ UNCHANGED <<tenants, initialData, selectedCustomer, transactionDate, items, discount,
                 sendLineNotification, saved, lineCalls, dbvars, trigvars, previewvars,
                 message_templates, txvars>>

\* the timer of line 167 fires
OnSuccessTimeout ==
  /\ onSuccess = "scheduled"
  /\ onSuccess' = "called"
  /\ UNCHANGED <<tenants, initialData, selectedCustomer, transactionDate, items, discount,
                 sendLineNotification, loading, success, saved, submit, lineCalls, logged,
                 dbvars, trigvars, previewvars, message_templates, txvars>>

\* the steps of a submit after the click
SubmitStep ==
  \/ \E ok \in BOOLEAN : TransactionServiceReturns(ok)
  \/ \E ok \in BOOLEAN : SendMessageReturns(ok)
  \/ OnSuccessTimeout

FormInit ==
  /\ products \in [ProductIds -> {TplProduct}]
  /\ on_transaction_item_created = "auto_create_customer_product_v2"
  /\ EmptyDatabase
  /\ transactions = <<>>
  /\ NEW_tx = [s \in Sessions |-> NULL]
  /\ now = CurrentDate
  /\ tenants \in TenantSettings
  /\ initialData = NULL
  /\ FormMounted

FormNext ==
  \/ \E customer \in CustomerIds : SelectCustomer(customer)
  \/ \E date \in DateInputs \cup {CurrentDate} : setTransactionDate(date)
  \/ handleAddItem
  \/ \E index \in 1..MaxFormItems, productId \in FormProductIds :
       handleProductChange(index, productId)
  \/ \E index \in 1..MaxFormItems, value \in QuantityInputs : handleQuantityChange(index, value)
  \/ \E index \in 1..MaxFormItems : handleServiceFlowToggle(index)
  \/ \E index \in 1..MaxFormItems, date \in DateInputs : handleServiceStartDateChange(index, date)
  \/ \E index \in 1..MaxFormItems : handleRemoveItem(index)
  \/ \E value \in DiscountInputs : onDiscountChange(value)
  \/ handleSubmit
  \/ \E ok \in BOOLEAN : TransactionServiceReturns(ok)
  \/ OnSuccessTimeout

FormSpec == FormInit /\ [][FormNext]_vars

\* ------------------------------------------ submitting the sale form
\* the form opened for a new transaction or on a stored one
SubmitInit ==
  /\ products \in [ProductIds -> {TplProduct}]
  /\ on_transaction_item_created = "auto_create_customer_product_v2"
  /\ EmptyDatabase
  /\ transactions = <<>>
  /\ NEW_tx = [s \in Sessions |-> NULL]
  /\ now = CurrentDate
  /\ tenants = [enable_vat |-> TRUE, vat_rate |-> 7]
  /\ initialData \in {NULL, Some(StoredTransaction)}
  /\ FormMounted

\* a customer with or without a LINE id, items of one product, the LINE
\* checkbox, and the submit with every outcome of the two services
SubmitNext ==
  \/ \E customer \in CustomerIds : SelectCustomer(customer)
  \/ handleAddItem
  \/ \E index \in 1..MaxFormItems : handleProductChange(index, 2)
  \/ \E checked \in BOOLEAN : onSendLineChange(checked)
  \/ handleSubmit
  \/ SubmitStep

SubmitSpec == SubmitInit /\ [][SubmitNext]_vars

\* ---------------------------------------------------------------- claims
\* inputs of the generator run, as the trigger and the preview read them
InLifecycle == JsNumber(product.lifecycle_months)

InInterval == JsNumber(product.service_interval_months)

InEnabled(phase) == JsEnabled(product.service_flow_config, phase)

\* both functions have returned
GenDone == pc = "idle" /\ ppc = "done"

\* rows materialized for the customer-product of the run, in insertion order
Rows == TasksOf(1)

MonthPhase(seq) == [k \in 1..Len(seq) |-> <<seq[k].month, seq[k].phase>>]

OfPhase(seq, phase) == SelectSeq(seq, LAMBDA n : n.phase = phase)

MonthsOf(seq) == [k \in 1..Len(seq) |-> seq[k].month]

\* <<interval, 2*interval, ...>>, the multiples of interval below lifecycle
Multiples(interval, lifecycle) ==
  [k \in 1..((lifecycle - 1) \div interval) |-> k * interval]

NonDecreasing(seq) == \A k \in 1..(Len(seq) - 1) : seq[k].month <= seq[k + 1].month

\* both month inputs are integers (neither column is NULL)
IntInputs == ~IsNull(product.lifecycle_months) /\ ~IsNull(product.service_interval_months)

AllEnabled == \A phase \in Phases : InEnabled(phase)

\* C1: for lifecycleMonths >= 0 and intervalMonths >= 0 the rows the trigger
\* inserts and the nodes the preview returns have the same (month, phase) sequence
C1_SameSchedule ==
  (GenDone /\ IntInputs /\ InLifecycle >= 0 /\ InInterval >= 0)
  => MonthPhase(Rows) = MonthPhase(nodes)

\* C2: once a customer_products row exists, no step (an update of the source
\* product in particular) changes it or any scheduled_service_tasks row already
\* inserted: rows are only ever appended
C2_SnapshotImmutable ==
  [][/\ Len(customer_products') >= Len(customer_products)
     /\ \A k \in 1..Len(customer_products) : customer_products'[k] = customer_products[k]
     /\ Len(scheduled_service_tasks') >= Len(scheduled_service_tasks)
     /\ \A k \in 1..Len(scheduled_service_tasks) :
          scheduled_service_tasks'[k] = scheduled_service_tasks[k]]_vars

\* C2 witness: a customer-product with materialized rows whose source product
\* has since been given another lifecycle, interval and configuration
C2_Witness ==
  /\ pc = "idle"
  /\ Len(customer_products) >= 1
  /\ customer_products[1].product_id \in DOMAIN products
  /\ Len(TasksOf(1)) >= 3
  /\ LET cp == customer_products[1]
         p == products[cp.product_id]
     IN /\ p.service_flow_config # cp.service_flow_config_snapshot
        /\ p.lifecycle_months # cp.lifecycle_months_snapshot
        /\ p.service_interval_months # cp.service_interval_months_snapshot

\* C3: with lifecycleMonths <= 0 the preview has no node and the trigger
\* inserts no row, whatever the interval and the flags
C3_NoLifecycleNoSchedule ==
  InLifecycle <= 0 => nodes = <<>> /\ Rows = <<>>

\* C3 witness: both functions returned for a lifecycle <= 0 with a positive
\* interval and every phase enabled
C3_Witness ==
  /\ GenDone
  /\ ~IsNull(product.lifecycle_months)
  /\ InLifecycle <= 0
  /\ InInterval > 0
  /\ AllEnabled

\* C4: with lifecycleMonths > 0, retention enabled and intervalMonths > 0 the
\* retention nodes (and rows) are exactly those at the multiples of the interval
\* below the lifecycle
C4_RetentionMultiples ==
  (GenDone /\ InLifecycle > 0 /\ InInterval > 0 /\ InEnabled("retention"))
  => /\ MonthsOf(OfPhase(nodes, "retention")) = Multiples(InInterval, InLifecycle)
     /\ MonthsOf(OfPhase(Rows, "retention")) = Multiples(InInterval, InLifecycle)
     /\ \A k \in 1..Len(nodes) :
          nodes[k].phase = "retention" => 0 < nodes[k].month /\ nodes[k].month < InLifecycle
     /\ \A k \in 1..Len(Rows) :
          Rows[k].phase = "retention" => 0 < Rows[k].month /\ Rows[k].month < InLifecycle

\* C4 witness: a finished run with several retention nodes whose interval
\* divides the lifecycle
C4_Witness ==
  /\ GenDone
  /\ InInterval > 0
  /\ InLifecycle = 3 * InInterval
  /\ Len(OfPhase(nodes, "retention")) = 2
  /\ Len(OfPhase(Rows, "retention")) = 2

\* C5: schedule generation always terminates: a loop is only entered with a
\* positive step, and it never still wants another iteration when its output has
\* MaxNodes entries (every iteration extends the output, so a loop that does not
\* end would get there); with intervalMonths <= 0 there is no retention node and
\* no retention row
C5_Terminates ==
  /\ pc = "loop" =>
       /\ Val(v_interval) > 0
       /\ TriggerLoopCond(Val(v_current_month), Val(v_lifecycle)) => Len(Rows) < MaxNodes
  /\ ppc = "loop" =>
       /\ InInterval > 0
       /\ PreviewLoopCond(Val(currentMonth), product.lifecycle_months) => Len(nodes) < MaxNodes
  /\ InInterval <= 0 =>
       /\ OfPhase(nodes, "retention") = <<>>
       /\ OfPhase(Rows, "retention") = <<>>

\* C5 witness: both functions have returned for a positive lifecycle with
\* retention enabled and an interval of zero or less
C5_Witness ==
  /\ GenDone
  /\ InLifecycle > 0
  /\ InInterval <= 0
  /\ InEnabled("retention")

\* C6: with lifecycleMonths > 0 and onboarding enabled there is exactly one
\* onboarding node, at month 0 on the anchor date, for every intervalMonths, in
\* the preview and among the rows
C6_OneOnboarding ==
  (GenDone /\ IntInputs /\ InLifecycle > 0 /\ InEnabled("onboarding"))
  => /\ OfPhase(nodes, "onboarding") = <<Node(0, serviceStartDate, "onboarding")>>
     /\ Len(OfPhase(Rows, "onboarding")) = 1
     /\ OfPhase(Rows, "onboarding")[1].month = 0
     /\ OfPhase(Rows, "onboarding")[1].scheduled_date = customer_products[1].installation_date

\* C7: with lifecycleMonths > 0 and maturity enabled there is exactly one
\* maturity node, it is the last one and its month is lifecycleMonths, for every
\* intervalMonths, in the preview and among the rows
C7_OneMaturityLast ==
  (GenDone /\ IntInputs /\ InLifecycle > 0 /\ InEnabled("maturity"))
  => /\ Len(OfPhase(nodes, "maturity")) = 1
     /\ nodes[Len(nodes)].phase = "maturity"
     /\ nodes[Len(nodes)].month = InLifecycle
     /\ Len(OfPhase(Rows, "maturity")) = 1
     /\ Rows[Len(Rows)].phase = "maturity"
     /\ Rows[Len(Rows)].month = InLifecycle

\* C8: with lifecycleMonths <= 0 or intervalMonths <= 0 the schedule is empty:
\* no node and no row, whatever the flags
C8_DisabledIsEmpty ==
  (IntInputs /\ (InLifecycle <= 0 \/ InInterval <= 0)) => nodes = <<>> /\ Rows = <<>>

\* C9: the month values of the preview nodes and of the rows in insertion
\* order are non-decreasing
C9_Ordered == NonDecreasing(nodes) /\ NonDecreasing(Rows)

\* C9 witness: a finished run with onboarding, several retention nodes and
\* maturity on both sides
C9_Witness ==
  /\ GenDone
  /\ AllEnabled
  /\ Len(nodes) >= 4
  /\ Len(Rows) >= 4

\* C10: with every phase enabled the schedule is onboarding at month 0, the
\* retention multiples below the lifecycle, then maturity at the lifecycle; for
\* lifecycle 24 and interval 6 that is months 0, 6, 12, 18, 24
C10_ScenarioA ==
  LET expected(lifecycle, interval) ==
        <<<<0, "onboarding">>>>
        \o [k \in 1..Len(Multiples(interval, lifecycle)) |->
              <<Multiples(interval, lifecycle)[k], "retention">>]
        \o <<<<lifecycle, "maturity">>>>
  IN /\ (GenDone /\ AllEnabled /\ InLifecycle > 0 /\ InInterval > 0)
        => /\ MonthPhase(nodes) = expected(InLifecycle, InInterval)
           /\ MonthPhase(Rows) = expected(InLifecycle, InInterval)
     /\ (GenDone /\ AllEnabled /\ InLifecycle = 24 /\ InInterval = 6)
        => /\ MonthPhase(nodes) =
                <<<<0, "onboarding">>, <<6, "retention">>, <<12, "retention">>,
                  <<18, "retention">>, <<24, "maturity">>>>
           /\ MonthPhase(Rows) = MonthPhase(nodes)

\* C10 witness: scenario A has run to the end on both sides
C10_Witness ==
  /\ GenDone
  /\ AllEnabled
  /\ InLifecycle = 24
  /\ InInterval = 6
  /\ Len(nodes) = 5
  /\ Len(Rows) = 5

\* C11: a phase whose enabled flag is not true has no node and no row; when
\* that is so for all three phases the schedule is empty, for every lifecycle and
\* interval; with lifecycle 12, interval 6 and only retention enabled the
\* schedule is the single month 6
C11_DisabledPhaseNoNode ==
  /\ \A phase \in Phases :
       ~InEnabled(phase) => OfPhase(nodes, phase) = <<>> /\ OfPhase(Rows, phase) = <<>>
  /\ (\A phase \in Phases : ~InEnabled(phase)) => nodes = <<>> /\ Rows = <<>>
  /\ (/\ GenDone
      /\ InLifecycle = 12
      /\ InInterval = 6
      /\ \A phase \in Phases : InEnabled(phase) <=> phase = "retention")
     => /\ MonthPhase(nodes) = <<<<6, "retention">>>>
        /\ MonthPhase(Rows) = <<<<6, "retention">>>>

\* C11 witness: scenario B has run to the end on both sides
C11_Witness ==
  /\ GenDone
  /\ InLifecycle = 12
  /\ InInterval = 6
  /\ \A phase \in Phases : InEnabled(phase) <=> phase = "retention"
  /\ Len(nodes) = 1
  /\ Len(Rows) = 1

\* the date n calendar months after a date whose day every month has
AddMonths(date, n) ==
  LET total == date.y * 12 + (date.m - 1) + n
  IN [y |-> total \div 12, m |-> (total % 12) + 1, d |-> date.d]

\* C12: every date is the anchor plus the node's month count in calendar
\* months, for the scheduled_date of the rows and for the preview nodes (stated
\* for an anchor day that every month has)
C12_CalendarMonths ==
  (GenDone /\ serviceStartDate.d <= 28)
  => /\ \A k \in 1..Len(Rows) :
          Rows[k].scheduled_date =
            AddMonths(customer_products[1].installation_date, Rows[k].month)
     /\ \A k \in 1..Len(nodes) :
          nodes[k].date = formatDate(AddMonths(serviceStartDate, nodes[k].month))

\* the customer-products a and b have the same snapshot and installation date
SameInputs(a, b) ==
  /\ a.installation_date = b.installation_date
  /\ a.service_flow_config_snapshot = b.service_flow_config_snapshot
  /\ a.lifecycle_months_snapshot = b.lifecycle_months_snapshot
  /\ a.service_interval_months_snapshot = b.service_interval_months_snapshot

\* the rows of a customer-product without the columns in drop
RowsWithout(id, drop) ==
  [k \in 1..Len(TasksOf(id)) |->
     [f \in (DOMAIN TasksOf(id)[k]) \ drop |-> TasksOf(id)[k][f]]]

\* C13 as stated: the rows generate_scheduled_service_tasks inserts for two
\* customer-products with the same snapshot and installation date are the same
\* in every column but the customer-product's key
C13_DependsOnlyOnSnapshot ==
  pc = "idle" =>
    \A a \in Range(customer_products), b \in Range(customer_products) :
      SameInputs(a, b)
      => RowsWithout(a.id, {"customer_product_id"}) = RowsWithout(b.id, {"customer_product_id"})

\* C13 amended: for the same snapshot and installation date the rows agree in
\* phase, month, scheduled_date, task_name and status; the message_template_id
\* is NULL or a message_templates row of the phase's type, whichever was the
\* default when the customer-product was created
C13_NodesDependOnlyOnSnapshot ==
  /\ pc = "idle" =>
       \A a \in Range(customer_products), b \in Range(customer_products) :
         SameInputs(a, b)
         => RowsWithout(a.id, {"customer_product_id", "message_template_id"})
              = RowsWithout(b.id, {"customer_product_id", "message_template_id"})
  /\ \A t \in Range(scheduled_service_tasks) :
       \/ IsNull(t.message_template_id)
       \/ \E row \in Range(message_templates) :
            row.id = Val(t.message_template_id) /\ row.type = t.phase

\* C13 witness: two customer-products with the same snapshot and installation
\* date, both with their rows, whose rows differ in the template only
C13_Witness ==
  /\ pc = "idle"
  /\ \E a \in Range(customer_products), b \in Range(customer_products) :
       /\ a.id # b.id
       /\ SameInputs(a, b)
       /\ Len(TasksOf(a.id)) >= 3
       /\ RowsWithout(a.id, {"customer_product_id"}) # RowsWithout(b.id, {"customer_product_id"})
       /\ RowsWithout(a.id, {"customer_product_id", "message_template_id"})
            = RowsWithout(b.id, {"customer_product_id", "message_template_id"})

\* C14: once the trigger has returned there is one row per node of the schedule
\* of the snapshot values (lifecycle and interval >= 0), in the same order with
\* the same phase and month, and every row has status pending
C14_OneRowPerNode ==
  (GenDone /\ IntInputs /\ InLifecycle >= 0 /\ InInterval >= 0)
  => /\ Len(Rows) = Len(nodes)
     /\ \A k \in 1..Len(Rows) :
          /\ Rows[k].phase = nodes[k].phase
          /\ Rows[k].month = nodes[k].month
          /\ Rows[k].status = "pending"

\* C15: a step that adds a customer_products row adds it for the item just
\* inserted, with the three columns of the item's product as they are at that
\* moment, and with the item's service_start_date as installation_date, or the
\* current date when the item has none
C15_SnapshotCapture ==
  [][Len(customer_products') > Len(customer_products) =>
       LET cp == customer_products'[Len(customer_products')]
           item == transaction_items'[Len(transaction_items')]
       IN /\ Len(transaction_items') = Len(transaction_items) + 1
          /\ cp.transaction_item_id = item.id
          /\ cp.product_id = item.product_id
          /\ cp.installation_date =
               (IF item.service_start_date = NULL THEN CurrentDate
                ELSE Val(item.service_start_date))
          /\ item.product_id \in DOMAIN products =>
               /\ cp.service_flow_config_snapshot = products[item.product_id].service_flow_config
               /\ cp.lifecycle_months_snapshot = products[item.product_id].lifecycle_months
               /\ cp.service_interval_months_snapshot =
                    products[item.product_id].service_interval_months]_vars

\* C15 witness: one customer-product made from an item with a service_start_date
\* and one from an item without, both of an existing product with a lifecycle
C15_Witness ==
  \E a \in Range(customer_products), b \in Range(customer_products) :
    /\ a.product_id \in DOMAIN products
    /\ b.product_id \in DOMAIN products
    /\ a.lifecycle_months_snapshot = Some(3)
    /\ transaction_items[a.transaction_item_id].service_start_date = Some(StartDate)
    /\ a.installation_date = StartDate
    /\ transaction_items[b.transaction_item_id].service_start_date = NULL
    /\ b.installation_date = CurrentDate

\* customer_products rows of a table that reference the item
CustomerProductsOf(table, item_id) ==
  Cardinality({k \in 1..Len(table) : table[k].transaction_item_id = item_id})

\* C16: inserting an item of a tangible product adds exactly one
\* customer_products row referencing it, inserting an item of a service product
\* adds none, no later step changes how many rows reference an item, and no
\* item is ever referenced by two
C16_OnePerTangibleItem ==
  [][/\ \A i \in 1..Len(transaction_items) :
          CustomerProductsOf(customer_products', i) = CustomerProductsOf(customer_products, i)
     /\ \A i \in 1..Len(transaction_items') : CustomerProductsOf(customer_products', i) <= 1
     /\ Len(transaction_items') > Len(transaction_items) =>
          LET item == transaction_items'[Len(transaction_items')]
          IN item.product_id \in DOMAIN products =>
               /\ products[item.product_id].product_type = Some("tangible")
                    => CustomerProductsOf(customer_products', item.id) = 1
               /\ products[item.product_id].product_type = Some("service")
                    => CustomerProductsOf(customer_products', item.id) = 0]_vars

\* C16 witness: two items of the same product, the first inserted while it was
\* tangible and referenced by one row, the second while it was a service and
\* referenced by none
C16_Witness ==
  /\ pc = "idle"
  /\ Len(transaction_items) = 2
  /\ transaction_items[1].product_id = 1
  /\ transaction_items[2].product_id = 1
  /\ products[1].product_type = Some("service")
  /\ CustomerProductsOf(customer_products, 1) = 1
  /\ CustomerProductsOf(customer_products, 2) = 0

\* C17: no customer_products row is ever made for a product that does not
\* exist, and none has a blank snapshot
C17_NoBlankSnapshot ==
  \A cp \in Range(customer_products) :
    /\ cp.product_id \in DOMAIN products
    /\ ~(/\ IsNull(cp.service_flow_config_snapshot)
         /\ IsNull(cp.lifecycle_months_snapshot)
         /\ IsNull(cp.service_interval_months_snapshot))

RECURSIVE DecimalValue(_)
\* the number a text of digits denotes
DecimalValue(text) ==
  IF text = <<>> THEN 0
  ELSE DecimalValue(SubSeq(text, 1, Len(text) - 1)) * 10
       + (CHOOSE d \in 0..9 : DigitChars[d + 1] = text[Len(text)])

\* C18: in every state, a transaction inserted now for any customer without a
\* number would get 'INV-', the six digits of year * 100 + month, '-', the first
\* six characters of the customer id in upper case, '-', and then the count of
\* the stored numbers with that prefix plus one, written with at least three
\* digits; inserted with a number it keeps it
C18_TransactionNo ==
  \A c \in CustomerIds :
    LET no == Val(BeforeInsertTransaction(c, NULL).transaction_no)
        prefix == SubSeq(no, 1, 18)
        sequence == SubSeq(no, 19, Len(no))
        existing == {k \in 1..Len(transactions) :
                       /\ transactions[k].transaction_no # NULL
                       /\ StartsWith(Val(transactions[k].transaction_no), prefix)}
    IN /\ Len(no) >= 21
       /\ SubSeq(no, 1, 4) = <<"I", "N", "V", "-">>
       /\ SubSeq(no, 5, 10) = DecimalText(now.y * 100 + now.m)
       /\ no[11] = "-"
       /\ \A i \in 1..6 : no[11 + i] = UpperChar(c[i])
       /\ no[18] = "-"
       /\ \A i \in 1..Len(sequence) : sequence[i] \in Range(DigitChars)
       /\ DecimalValue(sequence) = Cardinality(existing) + 1
       /\ \A s \in SuppliedNumbers :
            BeforeInsertTransaction(c, Some(s)) = TransactionRow(c, Some(s))

\* C19: an insert that has its number always ends with its row stored under
\* that number: no insert is refused or renumbered, whether or not the number
\* is already stored or about to be stored by the other session
C19_CollisionUndetected ==
  [][\A s \in Sessions :
       (NEW_tx[s] # NULL /\ NEW_tx'[s] = NULL)
       => transactions' = Append(transactions, Val(NEW_tx[s]))]_vars

\* C19 witness: the table holds exactly two transactions of one customer, both
\* numbered by the trigger in the same month, with the same number 001 (the
\* second insert counted before the first was visible)
C19_Witness ==
  /\ Len(transactions) = 2
  /\ transactions[1].customer_id = transactions[2].customer_id
  /\ transactions[1].transaction_no = transactions[2].transaction_no
  /\ transactions[1].transaction_no =
       Some(TransactionPrefix(transactions[1].customer_id, CurrentDate) \o <<"0", "0", "1">>)

\* C20: for the saved transaction, with subtotal the sum of total_price over
\* the saved items, net_amount - (subtotal - discount_amount) is 0 when the
\* tenant has VAT disabled and otherwise an integer nearest to
\* (subtotal - discount_amount) * vat_rate / 100
C20_NetAmount ==
  saved # NULL =>
    LET s == Val(saved)
        afterDiscount == SumTotalPrice(s.validItems) - s.discount_amount
        tax == s.net_amount - afterDiscount
        distance == 100 * tax - afterDiscount * tenants.vat_rate
    IN IF tenants.enable_vat
       THEN -50 <= distance /\ distance <= 50
       ELSE tax = 0

\* the message_template_id the config snapshot of a customer-product names for
\* a phase
ExplicitTemplate(cp, phase) ==
  JsonText(Coalesce(cp.service_flow_config_snapshot, EmptyConfig), phase, "message_template_id")

\* ids of the default templates of a type
DefaultIds(type) ==
  {row.id : row \in {r \in Range(message_templates) : r.type = type /\ r.is_default}}

\* C21: a step that materializes a touchpoint gives it the message_template_id
\* its phase config names; without one, the id of a message_templates row of
\* the phase's type with is_default = true; and NULL when there is no such row.
\* A phase that is due and names no template gets its touchpoint whether or not
\* a default exists
C21_TemplateResolution ==
  [][/\ Len(scheduled_service_tasks') > Len(scheduled_service_tasks) =>
          LET t == scheduled_service_tasks'[Len(scheduled_service_tasks')]
              explicit == ExplicitTemplate(Val(NEW_cp), t.phase)
          IN /\ Len(scheduled_service_tasks') = Len(scheduled_service_tasks) + 1
             /\ explicit # NULL => t.message_template_id = explicit
             /\ (explicit = NULL /\ DefaultIds(t.phase) # {}) =>
                  /\ t.message_template_id # NULL
                  /\ Val(t.message_template_id) \in DefaultIds(t.phase)
             /\ (explicit = NULL /\ DefaultIds(t.phase) = {}) => t.message_template_id = NULL
     /\ \A phase \in {"onboarding", "maturity"} :
          (/\ pc = phase
           /\ SqlEnabled(Val(v_config), phase)
           /\ ExplicitTemplate(Val(NEW_cp), phase) = NULL)
          => /\ Len(scheduled_service_tasks') = Len(scheduled_service_tasks) + 1
             /\ scheduled_service_tasks'[Len(scheduled_service_tasks')].phase = phase]_vars

\* C21 witness: one customer-product has a maturity touchpoint with the
\* template its config names although the type has a default, another has one
\* with no template because the type had no default, and the onboarding
\* touchpoints have the default of their type
C21_Witness ==
  /\ pc = "idle"
  /\ \E a \in Range(customer_products), b \in Range(customer_products) :
       /\ ExplicitTemplate(a, "maturity") = Some(NewTemplateId)
       /\ ExplicitTemplate(b, "maturity") = NULL
       /\ DefaultIds("maturity") = {3}
       /\ \E t \in Range(TasksOf(a.id)) :
            t.phase = "maturity" /\ t.message_template_id = Some(NewTemplateId)
       /\ \E t \in Range(TasksOf(b.id)) : t.phase = "maturity" /\ t.message_template_id = NULL
       /\ \E t \in Range(TasksOf(b.id)) : t.phase = "onboarding" /\ t.message_template_id = Some(1)

\* the number of touchpoints the snapshot of a customer-product calls for
Touchpoints(cp) ==
  LET config == Coalesce(cp.service_flow_config_snapshot, EmptyConfig)
      lifecycle == Coalesce(cp.lifecycle_months_snapshot, 0)
      interval == Coalesce(cp.service_interval_months_snapshot, 0)
  IN IF lifecycle <= 0 \/ interval <= 0 THEN 0
     ELSE (IF SqlEnabled(config, "onboarding") THEN 1 ELSE 0)
          + (IF SqlEnabled(config, "retention") THEN Len(Multiples(interval, lifecycle)) ELSE 0)
          + (IF SqlEnabled(config, "maturity") THEN 1 ELSE 0)

\* C24: whenever no insert is under way, every customer-product in the table
\* has all the touchpoints of its snapshot, every touchpoint belongs to a
\* customer-product of the table and every customer-product to an item of the
\* table; and after an insert that failed, the item, its customer-product and
\* its touchpoints are all absent and the caller has the error
C24_AllOrNothing ==
  /\ pc = "idle" =>
       /\ \A cp \in Range(customer_products) : Len(TasksOf(cp.id)) = Touchpoints(cp)
       /\ \A t \in Range(scheduled_service_tasks) :
            \E cp \in Range(customer_products) : cp.id = t.customer_product_id
       /\ \A cp \in Range(customer_products) :
            \E item \in Range(transaction_items) : item.id = cp.transaction_item_id
  /\ pc # "idle" => sqlstate = NULL

\* C24 witness: an insert has failed after an earlier one had succeeded with
\* all its touchpoints
C24_Witness ==
  /\ pc = "idle"
  /\ sqlstate = Some(ForeignKeyViolation)
  /\ Len(transaction_items) = 1
  /\ Len(customer_products) = 1
  /\ Len(TasksOf(1)) = 4
  /\ ExplicitTemplate(customer_products[1], "maturity") = NULL
  /\ ConfigTemplateIds(products[1].service_flow_config) = {NewTemplateId}
  /\ ~ReferencesTemplate(Some(NewTemplateId))

\* C22: a step that adds a customer_products row gives it the warranty_end_date
\* installation_date + lifecycle_months * 30 days when the lifecycle_months of
\* the item's product is above 0, and otherwise installation_date +
\* usage_duration_days, 365 when that is unset (as everything is for a product
\* that does not exist)
C22_WarrantyEndDate ==
  [][Len(customer_products') > Len(customer_products) =>
       LET cp == customer_products'[Len(customer_products')]
           known == cp.product_id \in DOMAIN products
           lifecycle_months == IF known THEN products[cp.product_id].lifecycle_months ELSE NULL
           usage_duration_days ==
             IF known THEN products[cp.product_id].usage_duration_days ELSE NULL
       IN cp.warranty_end_date =
            AddDays(cp.installation_date,
                    IF lifecycle_months # NULL /\ Val(lifecycle_months) > 0
                    THEN Val(lifecycle_months) * 30
                    ELSE IF usage_duration_days = NULL THEN 365
                         ELSE Val(usage_duration_days))]_vars

\* C22 witness: two customer-products of a product without a lifecycle and
\* without usage_duration_days, the first made by the older function today, the
\* second by the newer one for an item with a service_start_date, each with
\* 365 days of warranty
C22_Witness ==
  /\ pc = "idle"
  /\ Len(customer_products) = 2
  /\ products[1].lifecycle_months = Some(0)
  /\ products[1].usage_duration_days = NULL
  /\ customer_products[1].product_id = 1
  /\ customer_products[2].product_id = 1
  /\ customer_products[1].installation_date = CurrentDate
  /\ customer_products[1].warranty_end_date = Date(2026, 3, 1)
  /\ customer_products[2].installation_date = StartDate
  /\ customer_products[2].warranty_end_date = Date(2026, 1, 31)

\* C23: every customer_products row has next_service_date = installation_date
\* + service_interval_months * 30 days, with 6 months for an unset interval,
\* whichever function made it and whatever the lifecycle
C23_NextServiceDate ==
  \A cp \in Range(customer_products) :
    cp.next_service_date =
      AddDays(cp.installation_date,
              (IF cp.service_interval_months_snapshot = NULL THEN 6
               ELSE Val(cp.service_interval_months_snapshot)) * 30)

\* C28: a customer-product made for an item with enable_service_flow = false
\* has no scheduled_service_tasks row
C28_NoFlowNoTasks ==
  \A cp \in Range(customer_products) :
    \A item \in Range(transaction_items) :
      (item.id = cp.transaction_item_id /\ ~item.enable_service_flow) => TasksOf(cp.id) = <<>>

\* a product row as the product form saves it without a service flow
NoFlowSaved(p) ==
  ~p.has_service_flow => p.lifecycle_months = Some(0) /\ p.service_interval_months = Some(0)

\* a customer-product with lifecycle and interval 0 has no row
NoFlowNoRows(cps, tasks) ==
  \A cp \in Range(cps) :
    (cp.lifecycle_months_snapshot = Some(0) /\ cp.service_interval_months_snapshot = Some(0))
    => \A t \in Range(tasks) : t.customer_product_id # cp.id

\* C29: every product saved with has_service_flow = false has lifecycle_months
\* 0 and service_interval_months 0; a customer-product made while its product
\* is so gets both snapshots 0; and a customer-product with both 0 never has a
\* scheduled_service_tasks row, whatever its config snapshot
C29_NoServiceFlowNoTasks ==
  /\ \A id \in DOMAIN products : NoFlowSaved(products[id])
  /\ [][/\ \A id \in DOMAIN products' : NoFlowSaved(products'[id])
        /\ NoFlowNoRows(customer_products', scheduled_service_tasks')
        /\ Len(customer_products') > Len(customer_products) =>
             LET cp == customer_products'[Len(customer_products')]
             IN (cp.product_id \in DOMAIN products /\ ~products[cp.product_id].has_service_flow)
                => /\ cp.lifecycle_months_snapshot = Some(0)
                   /\ cp.service_interval_months_snapshot = Some(0)]_vars

\* C29 witness: the product, tangible and without a service flow, has been
\* bought twice; the trigger has returned both times and there is no row,
\* though every phase of the config snapshots is enabled
C29_Witness ==
  /\ pc = "idle"
  /\ ~products[1].has_service_flow
  /\ Len(customer_products) = 2
  /\ \A k \in 1..2 :
       /\ customer_products[k].product_id = 1
       /\ customer_products[k].lifecycle_months_snapshot = Some(0)
       /\ customer_products[k].service_flow_config_snapshot = Some(DEFAULT_SERVICE_FLOW_CONFIG)
  /\ scheduled_service_tasks = <<>>

\* C26: with one session inserting transactions without a number and deleting
\* transactions, no two stored transactions have the same transaction_no
C26_NoNumberReissued ==
  \A i \in 1..Len(transactions), j \in 1..Len(transactions) :
    i # j => transactions[i].transaction_no # transactions[j].transaction_no

\* C27: in the sale form the discount is never negative and never above the
\* subtotal of the items, and the net amount handed to the transaction service
\* is never negative
C27_DiscountWithinSubtotal ==
  /\ 0 <= discount
  /\ discount <= calculateSubtotal
  /\ (saved # NULL => Val(saved).net_amount >= 0)

\* C25: when a step of the sale form switches the service flow of an item on
\* or chooses its product, leaving the flow on, the item's service_start_date
\* is the transaction date the form shows, and the schedule preview is
\* anchored at it
C25_ServiceStartDefault ==
  [][\A k \in 1..Len(items') :
       (/\ Len(items') = Len(items)
        /\ items'[k].enable_service_flow
        /\ (~items[k].enable_service_flow \/ items'[k].product_id # items[k].product_id))
       => /\ items'[k].service_start_date = Some(transactionDate')
          /\ TimelineAnchor(items'[k]) = transactionDate']_vars

\* C30: loading is off whenever no submit runs; sendMessage is called only in
\* the step in which a new transaction was created, for a form without
\* initialData whose LINE checkbox is ticked and whose customer has a
\* line_user_id; the step that ends the wait for sendMessage, and every step in
\* which a transaction is created without a notification to send, shows the
\* success state and schedules onSuccess; and once scheduled onSuccess is only
\* ever called
C30_SubmitOutcome ==
  /\ (submit = "idle" => ~loading)
  /\ [][/\ (submit' = "idle" => ~loading')
        /\ (lineCalls' # lineCalls =>
              /\ lineCalls' = lineCalls + 1
              /\ Len(transactions') = Len(transactions) + 1
              /\ IsNull(initialData)
              /\ Val(saved).send_line_notification
              /\ ~IsNull(line_user_id(Val(saved).customer_id)))
        /\ (submit = "sendMessage" => success' /\ onSuccess' = "scheduled" /\ submit' = "idle")
        /\ (Len(transactions') > Len(transactions) =>
              submit' = "sendMessage" \/ (success' /\ onSuccess' = "scheduled"))
        /\ (success => success' /\ onSuccess' \in {"scheduled", "called"})
        /\ (onSuccess = "called" => onSuccess' = "called")]_vars

\* a new transaction was saved, the LINE notification was sent and failed, and
\* the form shows its success state, has called onSuccess and is not loading
C30_Witness ==
  /\ "Failed to send LINE notification:" \in logged
  /\ lineCalls = 1
  /\ Len(transactions) = 1
  /\ success
  /\ onSuccess = "called"
  /\ ~loading

====
